---- MODULE Spec2Model ----
(***************************************************************************)
(* MemoryDB (lighthouse/db/src/memory_db.rs): an in-memory, column-aware   *)
(* key-value store.  One flat HashMap behind an RwLock, a set of known     *)
(* columns behind a second RwLock, and four operations (get, put, exists,  *)
(* delete) that each take the db lock, then the known_columns lock, check  *)
(* the column, act on the map under a hashed (column, key) composite key,  *)
(* and drop both guards on return.                                         *)
(***************************************************************************)
EXTENDS Integers, Sequences, FiniteSets, TLC

(***************************************************************************)
(* Bounds of the model.                                                    *)
(***************************************************************************)
\* Number of threads sharing one store (Arc<MemoryDB>).
NumThreads == 2

\* Number of put calls each thread of the threading test performs.
WriteCount == 2

Threads == 1 .. NumThreads

(***************************************************************************)
(* Data.  Column names and keys are byte strings (sequences of bytes).     *)
(* The two known columns are chosen so that a column and a key can cross   *)
(* the boundary: "a" ++ "b" = "ab" ++ "".                                  *)
(***************************************************************************)
BLOCKS_DB_COLUMN == <<1>>
VALIDATOR_DB_COLUMN == <<1, 2>>

\* The columns declared at open.
COLUMNS == {BLOCKS_DB_COLUMN, VALIDATOR_DB_COLUMN}

\* Column names that were never declared ("ColumnX" of the tests, and another).
ColumnX == <<9>>
ColumnY == <<1, 2, 3>>
UnknownColumns == {ColumnX, ColumnY}

ColumnNames == COLUMNS \cup UnknownColumns

\* Caller keys: any byte sequence, the empty one included.
Keys == {<< >>, <<2>>}

\* Values: any byte sequence, the empty one included.
Vals == {<< >>, <<42>>}

\* test_memorydb_threading: one-byte keys, enough of them for every put of
\* every thread to have its own; the value tells which put wrote it.
ThreadKeys == {<<k>> : k \in 0 .. (NumThreads * WriteCount - 1)}
ThreadVal(t, w) == <<t, w>>

AllKeys == Keys \cup ThreadKeys

(***************************************************************************)
(* Option and Result values.                                               *)
(***************************************************************************)
None == << >>
Some(v) == <<v>>
Options == {None} \cup {Some(v) : v \in Vals}

Ok(x) == [tag |-> "Ok", val |-> x]

\* DBError { message: "Unknown column" }: the only field is a fixed message.
DBError == [message |-> "Unknown column"]
Err(e) == [tag |-> "Err", val |-> e]

(***************************************************************************)
(* HashMap<Vec<u8>, Vec<u8>>: a function whose domain is the set of        *)
(* present keys.                                                           *)
(***************************************************************************)
HashMap_new == [x \in {} |-> << >>]

HashMap_get(m, k) == IF k \in DOMAIN m THEN Some(m[k]) ELSE None

HashMap_contains_key(m, k) == k \in DOMAIN m

\* Variant: the insert drops every other entry.
HashMap_insert_single(m, k, v) == [x \in {k} |-> v]

HashMap_insert(m, k, v) ==
    [x \in (DOMAIN m) \cup {k} |-> IF x = k THEN v ELSE m[x]]

\* Variant: the remove clears the map.
HashMap_remove_clear(m, k) == [x \in {} |-> << >>]

HashMap_remove(m, k) == [x \in (DOMAIN m) \ {k} |-> m[x]]

(***************************************************************************)
(* blake2b(nn, k, data): the keyed BLAKE2b hash, taken as an ideal hash:   *)
(* the digest is determined by, and determines, what the function feeds to *)
(* its compression: the parameter block (digest length nn, key length kk)  *)
(* and the message, which is the key block (the key zero-padded to one     *)
(* 128-byte block, present only when a key is given) followed by the data. *)
(* The key block is written as the key bytes and the number of zero bytes  *)
(* that pad them.                                                          *)
(***************************************************************************)
KeyBlock(k) ==
    IF Len(k) = 0 THEN << >> ELSE <<[bytes |-> k, zeros |-> 128 - Len(k)]>>

blake2b(nn, k, data) == <<nn, Len(k), KeyBlock(k), data>>

\* Variant: the column name and the key are concatenated and hashed unkeyed.
get_key_for_col_concat(col, key) == blake2b(32, << >>, col \o key)

\* Variant: the column name is left out of the hash.
get_key_for_col_nocol(col, key) == blake2b(32, << >>, key)

\* MemoryDB::get_key_for_col: the column name is the hash key, the caller
\* key is the hashed data.
get_key_for_col(col, key) == blake2b(32, col, key)

(***************************************************************************)
(* The bodies of the four operations, once both guards are held: the       *)
(* result, and for put and delete the new map.                             *)
(***************************************************************************)
\* Variant: the error names the column.
get_naming(d, kc, col, key) ==
    IF col \in kc
    THEN Ok(HashMap_get(d, get_key_for_col(col, key)))
    ELSE Err([message |-> IF col = ColumnX
                          THEN "Unknown column ColumnX"
                          ELSE "Unknown column"])

get(d, kc, col, key) ==
    IF col \in kc
    THEN Ok(HashMap_get(d, get_key_for_col(col, key)))
    ELSE Err(DBError)

\* Variant: the entry is inserted before the column is checked.
put_unchecked(d, kc, col, key, val) ==
    [db |-> HashMap_insert(d, get_key_for_col(col, key), val),
     ret |-> IF col \in kc THEN Ok(<< >>) ELSE Err(DBError)]

\* Variant: an existing entry is kept (entry().or_insert()).
put_keep_first(d, kc, col, key, val) ==
    IF col \in kc
    THEN [db |-> IF HashMap_contains_key(d, get_key_for_col(col, key))
                 THEN d
                 ELSE HashMap_insert(d, get_key_for_col(col, key), val),
          ret |-> Ok(<< >>)]
    ELSE [db |-> d, ret |-> Err(DBError)]

\* Variant: the value is appended to an existing entry.
put_append(d, kc, col, key, val) ==
    IF col \in kc
    THEN [db |-> IF HashMap_contains_key(d, get_key_for_col(col, key))
                 THEN HashMap_insert(d, get_key_for_col(col, key),
                                     d[get_key_for_col(col, key)] \o val)
                 ELSE HashMap_insert(d, get_key_for_col(col, key), val),
          ret |-> Ok(<< >>)]
    ELSE [db |-> d, ret |-> Err(DBError)]

\* Variant: the empty key is refused.
put_reject_empty(d, kc, col, key, val) ==
    IF col \in kc /\ key # << >>
    THEN [db |-> HashMap_insert(d, get_key_for_col(col, key), val),
          ret |-> Ok(<< >>)]
    ELSE [db |-> d, ret |-> Err(DBError)]

put(d, kc, col, key, val) ==
    IF col \in kc
    THEN [db |-> HashMap_insert(d, get_key_for_col(col, key), val),
          ret |-> Ok(<< >>)]
    ELSE [db |-> d, ret |-> Err(DBError)]

\* Variant: an entry with an empty value counts as absent.
exists_nonempty(d, kc, col, key) ==
    IF col \in kc
    THEN Ok(HashMap_get(d, get_key_for_col(col, key)) \notin {None, Some(<< >>)})
    ELSE Err(DBError)

\* Variant: exists looks the key up without checking the column.
exists_unchecked(d, kc, col, key) ==
    Ok(HashMap_contains_key(d, get_key_for_col(col, key)))

exists(d, kc, col, key) ==
    IF col \in kc
    THEN Ok(HashMap_contains_key(d, get_key_for_col(col, key)))
    ELSE Err(DBError)

\* Variant: the entry is emptied instead of removed.
delete_tombstone(d, kc, col, key) ==
    IF col \in kc
    THEN [db |-> HashMap_insert(d, get_key_for_col(col, key), << >>),
          ret |-> Ok(<< >>)]
    ELSE [db |-> d, ret |-> Err(DBError)]

\* Variant: removing an absent key is an error.
delete_strict(d, kc, col, key) ==
    IF col \in kc /\ HashMap_contains_key(d, get_key_for_col(col, key))
    THEN [db |-> HashMap_remove(d, get_key_for_col(col, key)),
          ret |-> Ok(<< >>)]
    ELSE [db |-> d, ret |-> Err(DBError)]

delete(d, kc, col, key) ==
    IF col \in kc
    THEN [db |-> HashMap_remove(d, get_key_for_col(col, key)),
          ret |-> Ok(<< >>)]
    ELSE [db |-> d, ret |-> Err(DBError)]

(***************************************************************************)
(* State.                                                                  *)
(***************************************************************************)
VARIABLES
    db,             \* MemoryDB.db: the flat map
    known_columns,  \* MemoryDB.known_columns: the set of declared columns
    db_lock,        \* RwLock of db: [readers, writer], sets of threads, and
                    \*   [poisoned], set when a write guard is dropped by
                    \*   a panicking thread
    cols_lock,      \* RwLock of known_columns: [readers, writer, poisoned]
    pc,             \* per thread: where it is in its current call
    call,           \* per thread: the operation called and its arguments
    ret,            \* per thread: the result its call is about to return
    last,           \* history: per known (column, key), what the most recent
                    \*   put or delete applied to it left (Some(v) or None)
    old,            \* history: per thread in a put or delete, after its body:
                    \*   what HashMap::insert or HashMap::remove returned (the
                    \*   entry it replaced or removed), which the code drops
    expect,         \* history: per thread in a get on a known column, what
                    \*   real time lets it return: Expect(last[col, key]) as
                    \*   it was when the get was called, or Raced once a put
                    \*   or delete on the same (column, key) has held the
                    \*   write lock since then
    iter,           \* threading test: per thread, the loop counter w
    wrote           \* threading test: the puts issued, <<thread, w, key>>

vars == <<db, known_columns, db_lock, cols_lock, pc, call, ret,
          last, old, expect, iter, wrote>>

NoCall == [op |-> "none", col |-> << >>, key |-> << >>, val |-> << >>]
NoRet == [tag |-> "none", val |-> << >>]

\* Values of expect
NoExpect == [kind |-> "none", val |-> << >>]
Raced == [kind |-> "raced", val |-> << >>]
Expect(x) == [kind |-> "value", val |-> x]

Readers == {"get", "exists"}
Writers == {"put", "delete"}

\* The threads holding a guard of the db lock.
Unlocked == [readers |-> {}, writer |-> {}, poisoned |-> FALSE]

\* MemoryDB::open, and every thread outside any call.
Init ==
    /\ db = HashMap_new
    /\ known_columns = COLUMNS
    /\ db_lock = Unlocked
    /\ cols_lock = Unlocked
    /\ pc = [t \in Threads |-> "idle"]
    /\ call = [t \in Threads |-> NoCall]
    /\ ret = [t \in Threads |-> NoRet]
    /\ last = [ck \in COLUMNS \X AllKeys |-> None]
    /\ old = [t \in Threads |-> None]
    /\ expect = [t \in Threads |-> NoExpect]
    /\ iter = [t \in Threads |-> 0]
    /\ wrote = {}

(***************************************************************************)
(* A thread calls an operation.                                            *)
(***************************************************************************)
\* A put or delete on (col, key) holds the write lock of db.
WriteHeldOn(col, key) ==
    \E u \in db_lock.writer : call[u].col = col /\ call[u].key = key

Enter(t, op, col, key, val) ==
    /\ pc[t] = "idle"
    /\ pc' = [pc EXCEPT ![t] = "lock_db"]
    /\ call' = [call EXCEPT ![t] = [op |-> op, col |-> col, key |-> key, val |-> val]]
    /\ expect' = [expect EXCEPT ![t] =
                    IF op = "get" /\ col \in COLUMNS
                    THEN IF WriteHeldOn(col, key) THEN Raced ELSE Expect(last[<<col, key>>])
                    ELSE NoExpect]
    /\ UNCHANGED <<db, known_columns, db_lock, cols_lock, ret, last, old>>

CallGet(t) ==
    /\ \E col \in ColumnNames, key \in Keys : Enter(t, "get", col, key, << >>)
    /\ UNCHANGED <<iter, wrote>>

CallPut(t) ==
    /\ \E col \in ColumnNames, key \in Keys, val \in Vals : Enter(t, "put", col, key, val)
    /\ UNCHANGED <<iter, wrote>>

CallExists(t) ==
    /\ \E col \in ColumnNames, key \in Keys : Enter(t, "exists", col, key, << >>)
    /\ UNCHANGED <<iter, wrote>>

CallDelete(t) ==
    /\ \E col \in ColumnNames, key \in Keys : Enter(t, "delete", col, key, << >>)
    /\ UNCHANGED <<iter, wrote>>

(***************************************************************************)
(* self.db.read().unwrap(): blocks while a writer holds the lock.          *)
(***************************************************************************)
\* Variant: the guard is taken with write() where the code takes read().
RwLock_read_as_write(l, t) == [l EXCEPT !.writer = @ \cup {t}]

RwLock_read(l, t) == [l EXCEPT !.readers = @ \cup {t}]

RwLock_can_read(l) == l.writer = {}

\* Variant: the write guard is dropped as soon as it is taken.
RwLock_write_dropped(l, t) == l

RwLock_write(l, t) == [l EXCEPT !.writer = {t}]

\* Variant: a writer does not wait for the readers.
RwLock_can_write_past_readers(l) == l.writer = {}

RwLock_can_write(l) == l.writer = {} /\ l.readers = {}

\* Variant: the guard is leaked (mem::forget) instead of dropped.
RwLock_drop_leaked(l, t) == l

RwLock_drop(l, t) == [l EXCEPT !.readers = @ \ {t}, !.writer = @ \ {t}]

\* Variant: read() and write() recover the guard of a poisoned lock.
Poisoned_ignored(l) == FALSE

\* read() and write() return Err on a poisoned lock, and unwrap() panics.
Poisoned(l) == l.poisoned

\* A guard dropped while its thread panics: a write guard poisons the lock,
\* a read guard does not.
RwLock_poison(l, t) == [l EXCEPT !.poisoned = @ \/ t \in l.writer]

LockDbRead(t) ==
    /\ pc[t] = "lock_db"
    /\ call[t].op \in Readers
    /\ RwLock_can_read(db_lock)
    /\ ~Poisoned(db_lock)
    /\ db_lock' = RwLock_read(db_lock, t)
    /\ pc' = [pc EXCEPT ![t] = "lock_cols"]
    /\ UNCHANGED <<db, known_columns, cols_lock, call, ret, last, old, expect,
                   iter, wrote>>

\* self.db.write().unwrap(): blocks while anyone holds the lock.
LockDbWrite(t) ==
    /\ pc[t] = "lock_db"
    /\ call[t].op \in Writers
    /\ RwLock_can_write(db_lock)
    /\ ~Poisoned(db_lock)
    /\ db_lock' = RwLock_write(db_lock, t)
    /\ pc' = [pc EXCEPT ![t] = "lock_cols"]
    /\ expect' = [u \in Threads |->
                    IF /\ expect[u] # NoExpect
                       /\ call[u].col = call[t].col
                       /\ call[u].key = call[t].key
                    THEN Raced
                    ELSE expect[u]]
    /\ UNCHANGED <<db, known_columns, cols_lock, call, ret, last, old, iter, wrote>>

\* self.known_columns.read().unwrap(): nothing ever takes the write lock,
\* so no write guard of it is ever dropped in a panic.
LockCols(t) ==
    /\ pc[t] = "lock_cols"
    /\ RwLock_can_read(cols_lock)
    /\ ~Poisoned(cols_lock)
    /\ cols_lock' = RwLock_read(cols_lock, t)
    /\ pc' = [pc EXCEPT ![t] = "body"]
    /\ UNCHANGED <<db, known_columns, db_lock, call, ret, last, old, expect,
                   iter, wrote>>

(***************************************************************************)
(* The bodies, run with both guards held.                                  *)
(***************************************************************************)
Get(t) ==
    /\ pc[t] = "body"
    /\ call[t].op = "get"
    /\ ret' = [ret EXCEPT ![t] = get(db, known_columns, call[t].col, call[t].key)]
    /\ pc' = [pc EXCEPT ![t] = "ret"]
    /\ UNCHANGED <<db, known_columns, db_lock, cols_lock, call, last, old, expect,
                   iter, wrote>>

Exists(t) ==
    /\ pc[t] = "body"
    /\ call[t].op = "exists"
    /\ ret' = [ret EXCEPT ![t] = exists(db, known_columns, call[t].col, call[t].key)]
    /\ pc' = [pc EXCEPT ![t] = "ret"]
    /\ UNCHANGED <<db, known_columns, db_lock, cols_lock, call, last, old, expect,
                   iter, wrote>>

Put(t) ==
    /\ pc[t] = "body"
    /\ call[t].op = "put"
    /\ LET r == put(db, known_columns, call[t].col, call[t].key, call[t].val)
       IN  /\ db' = r.db
           /\ ret' = [ret EXCEPT ![t] = r.ret]
           /\ last' = IF r.ret.tag = "Ok"
                      THEN [last EXCEPT ![<<call[t].col, call[t].key>>] = Some(call[t].val)]
                      ELSE last
           /\ old' = [old EXCEPT ![t] =
                        IF r.ret.tag = "Ok"
                        THEN HashMap_get(db, get_key_for_col(call[t].col, call[t].key))
                        ELSE None]
    /\ pc' = [pc EXCEPT ![t] = "ret"]
    /\ UNCHANGED <<known_columns, db_lock, cols_lock, call, expect,
                   iter, wrote>>

Delete(t) ==
    /\ pc[t] = "body"
    /\ call[t].op = "delete"
    /\ LET r == delete(db, known_columns, call[t].col, call[t].key)
       IN  /\ db' = r.db
           /\ ret' = [ret EXCEPT ![t] = r.ret]
           /\ last' = IF r.ret.tag = "Ok"
                      THEN [last EXCEPT ![<<call[t].col, call[t].key>>] = None]
                      ELSE last
           /\ old' = [old EXCEPT ![t] =
                        IF r.ret.tag = "Ok"
                        THEN HashMap_get(db, get_key_for_col(call[t].col, call[t].key))
                        ELSE None]
    /\ pc' = [pc EXCEPT ![t] = "ret"]
    /\ UNCHANGED <<known_columns, db_lock, cols_lock, call, expect,
                   iter, wrote>>

(***************************************************************************)
(* End of the function: the guards are dropped in reverse order of their   *)
(* declaration, known_columns first, then db, and the call returns ret[t]. *)
(* Dropping a guard never blocks.                                          *)
(***************************************************************************)
Return(t) ==
    /\ pc[t] = "ret"
    /\ cols_lock' = RwLock_drop(cols_lock, t)
    /\ db_lock' = RwLock_drop(db_lock, t)
    /\ pc' = [pc EXCEPT ![t] = "idle"]
    /\ call' = [call EXCEPT ![t] = NoCall]
    /\ ret' = [ret EXCEPT ![t] = NoRet]
    /\ old' = [old EXCEPT ![t] = None]
    /\ expect' = [expect EXCEPT ![t] = NoExpect]
    /\ UNCHANGED <<db, known_columns, last, iter, wrote>>

Next ==
    \E t \in Threads :
        \/ CallGet(t)
        \/ CallPut(t)
        \/ CallExists(t)
        \/ CallDelete(t)
        \/ LockDbRead(t)
        \/ LockDbWrite(t)
        \/ LockCols(t)
        \/ Get(t)
        \/ Put(t)
        \/ Exists(t)
        \/ Delete(t)
        \/ Return(t)

Spec == Init /\ [][Next]_vars

(***************************************************************************)
(* test_memorydb_threading: every thread runs a loop of WriteCount puts on *)
(* BLOCKS_DB_COLUMN and unwraps each result; the main thread joins them    *)
(* all and then reads every key back.  The keys are any one-byte keys, so  *)
(* both the runs with pairwise distinct keys and the runs where threads    *)
(* share a key are covered.                                                *)
(***************************************************************************)
ThreadPut(t) ==
    /\ iter[t] < WriteCount
    /\ \E key \in ThreadKeys :
          /\ Enter(t, "put", BLOCKS_DB_COLUMN, key, ThreadVal(t, iter[t]))
          /\ wrote' = wrote \cup {<<t, iter[t], key>>}
    /\ iter' = [iter EXCEPT ![t] = @ + 1]

\* handle.join() has returned for every thread.
Joined == \A t \in Threads : pc[t] = "idle" /\ iter[t] = WriteCount

NextThreading ==
    \E t \in Threads :
        \/ ThreadPut(t)
        \/ LockDbWrite(t)
        \/ LockCols(t)
        \/ Put(t)
        \/ Return(t)

SpecThreading == Init /\ [][NextThreading]_vars

(***************************************************************************)
(* Panics.  A thread that panics inside an operation unwinds out of it:    *)
(* its guards are dropped, and the write guard of db poisons the lock.     *)
(* From then on db.read() and db.write() return Err and unwrap() panics,   *)
(* as soon as the lock could be acquired; the guard inside the Err is      *)
(* dropped at once.  The store is shared, so other callers go on after a   *)
(* thread has panicked.                                                    *)
(***************************************************************************)
\* The thread fails with both guards held, before the map is touched.
Panic(t) ==
    /\ pc[t] = "body"
    /\ cols_lock' = RwLock_drop(RwLock_poison(cols_lock, t), t)
    /\ db_lock' = RwLock_drop(RwLock_poison(db_lock, t), t)
    /\ pc' = [pc EXCEPT ![t] = "failed"]
    /\ call' = [call EXCEPT ![t] = NoCall]
    /\ expect' = [expect EXCEPT ![t] = NoExpect]
    /\ UNCHANGED <<db, known_columns, ret, last, old, iter, wrote>>

\* self.db.read().unwrap() or self.db.write().unwrap() on the poisoned lock.
LockDbPoisoned(t) ==
    /\ pc[t] = "lock_db"
    /\ IF call[t].op \in Readers
       THEN RwLock_can_read(db_lock)
       ELSE RwLock_can_write(db_lock)
    /\ Poisoned(db_lock)
    /\ pc' = [pc EXCEPT ![t] = "panicked"]
    /\ call' = [call EXCEPT ![t] = NoCall]
    /\ expect' = [expect EXCEPT ![t] = NoExpect]
    /\ UNCHANGED <<db, known_columns, db_lock, cols_lock, ret, last, old,
                   iter, wrote>>

\* The panic has left the operation; the caller's slot is free again.
Unwind(t) ==
    /\ pc[t] \in {"failed", "panicked"}
    /\ pc' = [pc EXCEPT ![t] = "idle"]
    /\ UNCHANGED <<db, known_columns, db_lock, cols_lock, call, ret, last, old,
                   expect, iter, wrote>>

NextPoison ==
    \/ Next
    \/ \E t \in Threads :
          \/ Panic(t)
          \/ LockDbPoisoned(t)
          \/ Unwind(t)

SpecPoison == Init /\ [][NextPoison]_vars

(***************************************************************************)
(* MemoryDB::open on any list of column names.  open copies the list       *)
(* COLUMNS of the enclosing crate into known_columns; the list is whatever *)
(* the application declares, the empty list included.                      *)
(***************************************************************************)
OpenColumns == SUBSET COLUMNS

InitOpen ==
    /\ db = HashMap_new
    /\ known_columns \in OpenColumns
    /\ db_lock = Unlocked
    /\ cols_lock = Unlocked
    /\ pc = [t \in Threads |-> "idle"]
    /\ call = [t \in Threads |-> NoCall]
    /\ ret = [t \in Threads |-> NoRet]
    /\ last = [ck \in COLUMNS \X AllKeys |-> None]
    /\ old = [t \in Threads |-> None]
    /\ expect = [t \in Threads |-> NoExpect]
    /\ iter = [t \in Threads |-> 0]
    /\ wrote = {}

SpecOpen == InitOpen /\ [][Next]_vars

(***************************************************************************)
(* Threads calling the four operations under fair scheduling.  Whether a   *)
(* call returns depends on the locks only, so the calls are on one key of  *)
(* one known and one undeclared column.  A thread that is past the db lock *)
(* never blocks and keeps running (weak fairness of its steps); the lock   *)
(* is fair: a thread does not wait for it forever unless some thread holds *)
(* it forever.                                                             *)
(***************************************************************************)
CallLive(t) ==
    /\ \E op \in Readers \cup Writers, col \in {BLOCKS_DB_COLUMN, ColumnX} :
          Enter(t, op, col, << >>, IF op = "put" THEN <<42>> ELSE << >>)
    /\ UNCHANGED <<iter, wrote>>

\* The steps of a call from the acquisition of the db lock on.
Running(t) ==
    \/ LockCols(t)
    \/ Get(t)
    \/ Put(t)
    \/ Exists(t)
    \/ Delete(t)
    \/ Return(t)

NextLive ==
    \E t \in Threads :
        \/ CallLive(t)
        \/ LockDbRead(t)
        \/ LockDbWrite(t)
        \/ Running(t)

FairLock(t) ==
    <>[](pc[t] = "lock_db") =>
        \E u \in Threads \ {t} : <>[](u \in db_lock.readers \cup db_lock.writer)

SpecLive ==
    /\ Init
    /\ [][NextLive]_vars
    /\ \A t \in Threads : WF_vars(Running(t))
    /\ \A t \in Threads : FairLock(t)

(***************************************************************************)
(* Properties.                                                             *)
(***************************************************************************)
\* Thread t is at the end of a call of op: the body has run, the result is
\* in ret[t], the guards are still held.
AtRet(t, op) == pc[t] = "ret" /\ call[t].op = op

\* The step is the body of t's call.
BodyStep(t) == pc[t] = "body" /\ pc'[t] = "ret"

\* C1 (column isolation): a put or delete on a known column c1 never changes
\* what get or exists return for any key of another known column c2; and
\* when a put on (c2, k) has been applied, get(c1, k) still returns what was
\* last put under (c1, k) while get(c2, k) returns the value just put.
C1_ColumnIsolation ==
    /\ [][\A t \in Threads :
            (BodyStep(t) /\ call[t].op \in Writers /\ call[t].col \in COLUMNS) =>
                \A c2 \in COLUMNS \ {call[t].col}, k \in Keys :
                    /\ get(db', known_columns', c2, k) = get(db, known_columns, c2, k)
                    /\ exists(db', known_columns', c2, k) = exists(db, known_columns, c2, k)]_vars
    /\ [](\A t \in Threads :
            (AtRet(t, "put") /\ call[t].col \in COLUMNS) =>
                /\ get(db, known_columns, call[t].col, call[t].key) = Ok(Some(call[t].val))
                /\ \A c1 \in COLUMNS \ {call[t].col} :
                      get(db, known_columns, c1, call[t].key) = Ok(last[<<c1, call[t].key>>]))

\* A put(c2, k, v2) has been applied after a put(c1, k, v1) with c1 # c2 and
\* v1 # v2, and each column reads its own value.
C1_Witness ==
    \E t \in Threads, c1 \in COLUMNS :
        /\ AtRet(t, "put")
        /\ call[t].col \in COLUMNS \ {c1}
        /\ last[<<c1, call[t].key>>] # None
        /\ last[<<c1, call[t].key>>] # Some(call[t].val)
        /\ get(db, known_columns, c1, call[t].key) = Ok(last[<<c1, call[t].key>>])
        /\ get(db, known_columns, call[t].col, call[t].key) = Ok(Some(call[t].val))

\* C2 (unknown column rejection): a get, put, exists or delete on a column
\* that was not declared at open returns the unknown-column error, and its
\* body leaves the flat mapping as it was.
C2_UnknownColumnRejected ==
    /\ [](\A t \in Threads :
            (pc[t] = "ret" /\ call[t].col \notin COLUMNS) =>
                (ret[t].tag = "Err" /\ ret[t].val = DBError))
    /\ [][\A t \in Threads :
            (BodyStep(t) /\ call[t].col \notin COLUMNS) => db' = db]_vars

\* A put on an undeclared column has been rejected on a store that holds
\* entries of known columns.
C2_Witness ==
    \E t \in Threads :
        /\ AtRet(t, "put")
        /\ call[t].col \notin COLUMNS
        /\ ret[t].tag = "Err"
        /\ db # HashMap_new

\* C3 (get returns the latest put): in every reachable state, for every known
\* column c and key k, get(c, k) succeeds with the value of the most recent
\* put on (c, k) that no delete on (c, k) followed, and with absence when
\* there is none; every get call on a known column returns just that.
C3_GetReturnsLatestPut ==
    /\ \A c \in COLUMNS, k \in Keys :
          get(db, known_columns, c, k) = Ok(last[<<c, k>>])
    /\ \A t \in Threads :
          (AtRet(t, "get") /\ call[t].col \in COLUMNS) =>
              ret[t] = Ok(last[<<call[t].col, call[t].key>>])

\* A get has returned a value while the other key of its column is absent
\* and the same key of the other column holds another value.
C3_Witness ==
    \E t \in Threads :
        /\ AtRet(t, "get")
        /\ call[t].col \in COLUMNS
        /\ ret[t].tag = "Ok"
        /\ ret[t].val # None
        /\ \E k \in Keys : last[<<call[t].col, k>>] = None
        /\ \E c \in COLUMNS :
              /\ last[<<c, call[t].key>>] # None
              /\ last[<<c, call[t].key>>] # ret[t].val

\* C4 (exists reflects presence): in every reachable state (the freshly
\* opened store included), for every known column c and key k, exists(c, k)
\* is true exactly when the most recent put or delete on (c, k) is a put, and
\* exactly when get(c, k) returns a value; every exists call on a known
\* column returns just that.
C4_ExistsReflectsPresence ==
    /\ \A c \in COLUMNS, k \in Keys :
          /\ exists(db, known_columns, c, k) = Ok(last[<<c, k>>] # None)
          /\ exists(db, known_columns, c, k) =
                Ok(get(db, known_columns, c, k).val # None)
    /\ \A t \in Threads :
          (AtRet(t, "exists") /\ call[t].col \in COLUMNS) =>
              ret[t] = Ok(last[<<call[t].col, call[t].key>>] # None)

\* Two exists calls are returning at once: false for a key of one column,
\* true for the same key of the other column, whose value is empty.
C4_Witness ==
    \E t \in Threads, u \in Threads :
        /\ AtRet(t, "exists")
        /\ call[t].col \in COLUMNS
        /\ ret[t] = Ok(FALSE)
        /\ AtRet(u, "exists")
        /\ call[u].col \in COLUMNS \ {call[t].col}
        /\ call[u].key = call[t].key
        /\ ret[u] = Ok(TRUE)
        /\ last[<<call[u].col, call[u].key>>] = Some(<< >>)

\* C5 (delete round-trip): on every reachable mapping, for every known column
\* c, key k and value v, put(c, k, v) then delete(c, k) leaves get(c, k)
\* absent, and leaves the whole mapping as it was before the put when (c, k)
\* was absent then; and every delete call on a known column leaves get(c, k)
\* absent and exists(c, k) false.
C5_DeleteRoundTrip ==
    /\ \A c \in COLUMNS, k \in Keys, v \in Vals :
          LET d1 == put(db, known_columns, c, k, v).db
              d2 == delete(d1, known_columns, c, k).db
          IN  /\ get(d2, known_columns, c, k) = Ok(None)
              /\ (get(db, known_columns, c, k) = Ok(None)) => (d2 = db)
    /\ \A t \in Threads :
          (AtRet(t, "delete") /\ call[t].col \in COLUMNS) =>
              /\ get(db, known_columns, call[t].col, call[t].key) = Ok(None)
              /\ exists(db, known_columns, call[t].col, call[t].key) = Ok(FALSE)

\* A delete has removed an entry that a put had made, other entries remain,
\* and the key reads as absent.
C5_Witness ==
    \E t \in Threads :
        /\ AtRet(t, "delete")
        /\ call[t].col \in COLUMNS
        /\ old[t] # None
        /\ db # HashMap_new
        /\ get(db, known_columns, call[t].col, call[t].key) = Ok(None)

\* C6 (idempotent put): on every reachable mapping, for every known column c,
\* key k and value v, put(c, k, v) applied twice gives the mapping that
\* applying it once gives, where get(c, k) = v; and when a put call has been
\* applied, applying the same put again would change nothing.
C6_IdempotentPut ==
    /\ \A c \in COLUMNS, k \in Keys, v \in Vals :
          LET d1 == put(db, known_columns, c, k, v).db
          IN  /\ put(d1, known_columns, c, k, v).db = d1
              /\ get(d1, known_columns, c, k) = Ok(Some(v))
    /\ \A t \in Threads :
          (AtRet(t, "put") /\ call[t].col \in COLUMNS) =>
              /\ put(db, known_columns, call[t].col, call[t].key, call[t].val).db = db
              /\ get(db, known_columns, call[t].col, call[t].key) = Ok(Some(call[t].val))

\* A put of a non-empty value has been applied to a key that already held
\* that value (the second of two equal puts), on a store with other entries.
C6_Witness ==
    \E t \in Threads :
        /\ AtRet(t, "put")
        /\ call[t].col \in COLUMNS
        /\ call[t].val # << >>
        /\ old[t] = Some(call[t].val)
        /\ Cardinality(DOMAIN db) > 1

\* The keys of the puts the threads issued are pairwise distinct.
DistinctKeys == \A a \in wrote, b \in wrote : a[3] = b[3] => a = b

\* C7 (concurrent writers converge): in the threading test every put returns
\* success, and once every thread has finished a run whose keys are pairwise
\* distinct, every key is present and reads the value its thread wrote.
C7_ConcurrentWritersConverge ==
    /\ \A t \in Threads : AtRet(t, "put") => ret[t].tag = "Ok"
    /\ (Joined /\ DistinctKeys) =>
          /\ \A a \in wrote :
                get(db, known_columns, BLOCKS_DB_COLUMN, a[3]) =
                    Ok(Some(ThreadVal(a[1], a[2])))
          /\ Cardinality(DOMAIN db) = NumThreads * WriteCount

\* Every thread has finished its WriteCount puts, all on distinct keys.
C7_Witness ==
    /\ Joined
    /\ DistinctKeys
    /\ Cardinality(wrote) = NumThreads * WriteCount

\* The threads holding a guard of the db lock.
Holding == {t \in Threads : pc[t] \in {"lock_cols", "body", "ret"}}

\* C8 (locking discipline): while a put or delete holds a guard of the db
\* lock no other call holds one; the lock's readers are the get and exists
\* calls holding it and its writer the put or delete holding it.
C8_LockingDiscipline ==
    /\ \A t \in Holding :
          call[t].op \in Writers => Holding = {t}
    /\ db_lock.writer = {t \in Holding : call[t].op \in Writers}
    /\ db_lock.readers = {t \in Holding : call[t].op \in Readers}

\* A get and an exists hold the db lock together, both in their bodies,
\* on a store a put has written to.
C8_Witness ==
    \E t \in Threads, u \in Threads :
        /\ pc[t] = "body" /\ call[t].op = "get"
        /\ pc[u] = "body" /\ call[u].op = "exists"
        /\ db_lock.readers = {t, u}
        /\ db # HashMap_new

\* C9 (real-time visibility): a get on (c, k) called after a put(c, k, v)
\* completed, with no put or delete on (c, k) holding the write lock since
\* that put, returns v.
C9_RealTimeVisibility ==
    \A t \in Threads :
        (AtRet(t, "get") /\ expect[t].kind = "value" /\ expect[t].val # None) =>
            ret[t] = Ok(expect[t].val)

\* A get returns the value of the put completed before it was called, while
\* a put of another value on the same (column, key), called later, waits for
\* the lock.
C9_Witness ==
    \E t \in Threads, u \in Threads :
        /\ AtRet(t, "get")
        /\ expect[t].kind = "value"
        /\ expect[t].val # None
        /\ ret[t] = Ok(expect[t].val)
        /\ pc[u] = "lock_db"
        /\ call[u].op = "put"
        /\ call[u].col = call[t].col
        /\ call[u].key = call[t].key
        /\ Some(call[u].val) # expect[t].val

\* C10 as stated: the unknown-column error identifies the column, so the
\* errors of calls on two different undeclared columns differ.
C10_ErrorNamesColumn ==
    \A t \in Threads, u \in Threads :
        (/\ pc[t] = "ret" /\ ret[t].tag = "Err"
         /\ pc[u] = "ret" /\ ret[u].tag = "Err"
         /\ call[t].col # call[u].col) =>
            ret[t] # ret[u]

\* C10 amended: the unknown-column error of get, put, exists and delete is
\* DBError with the fixed message "Unknown column", whatever the column: the
\* errors of calls on two different undeclared columns are equal.
C10_ErrorIsFixedMessage ==
    /\ \A t \in Threads :
          (pc[t] = "ret" /\ ret[t].tag = "Err") =>
              ret[t].val.message = "Unknown column"
    /\ \A t \in Threads, u \in Threads :
          (/\ pc[t] = "ret" /\ ret[t].tag = "Err"
           /\ pc[u] = "ret" /\ ret[u].tag = "Err") =>
              ret[t] = ret[u]

\* A get on ColumnX and an exists on ColumnY are both returning the error.
C10_Witness ==
    \E t \in Threads, u \in Threads :
        /\ AtRet(t, "get") /\ call[t].col = ColumnX /\ ret[t].tag = "Err"
        /\ AtRet(u, "exists") /\ call[u].col = ColumnY /\ ret[u].tag = "Err"

\* C11 (unknown column is the sole failure mode): a get, put, exists or
\* delete on a known column returns success, whatever the key (the empty key
\* included) and the value; and no call panics on acquiring the db lock
\* unless the lock is poisoned.
C11_UnknownColumnSoleFailure ==
    \A t \in Threads :
        /\ (pc[t] = "ret" /\ call[t].col \in COLUMNS) => ret[t].tag = "Ok"
        /\ pc[t] = "panicked" => db_lock.poisoned

\* A put of the empty value under the empty key of a known column returns
\* success while a get of the empty key of the other known column does, on a
\* lock that is not poisoned although a reader has failed.
C11_Witness ==
    \E t \in Threads, u \in Threads :
        /\ AtRet(t, "put")
        /\ call[t].col = VALIDATOR_DB_COLUMN
        /\ call[t].key = << >>
        /\ call[t].val = << >>
        /\ ret[t] = Ok(<< >>)
        /\ pc[u] = "failed"
        /\ ~db_lock.poisoned

\* C12 (delete of an absent key): the body of a delete on a known column
\* whose key has no entry returns success and leaves the whole map as it
\* was; and on every reachable map a second delete of the same (column, key)
\* returns success and changes nothing the first has not changed.
C12_DeleteAbsentIsNoOp ==
    /\ [][\A t \in Threads :
            (/\ BodyStep(t)
             /\ call[t].op = "delete"
             /\ call[t].col \in COLUMNS
             /\ ~HashMap_contains_key(db, get_key_for_col(call[t].col, call[t].key))) =>
                /\ db' = db
                /\ ret'[t] = Ok(<< >>)]_vars
    /\ [](\A col \in COLUMNS, key \in Keys :
            LET once == delete(db, known_columns, col, key)
                twice == delete(once.db, known_columns, col, key)
            IN  /\ once.ret = Ok(<< >>)
                /\ twice.ret = Ok(<< >>)
                /\ twice.db = once.db)

\* A delete of a key without entry returns success, on a store with other
\* entries.
C12_Witness ==
    \E t \in Threads :
        /\ AtRet(t, "delete")
        /\ call[t].col \in COLUMNS
        /\ old[t] = None
        /\ ret[t] = Ok(<< >>)
        /\ db # HashMap_new

\* C13 (the registry is immutable after open): in every reachable state the
\* set of known columns is the one open built, no call holds or has taken a
\* write guard of the registry lock (it is never poisoned), and a call
\* returns the unknown-column error exactly when its column is not in that
\* set, whatever calls came before.
C13_RegistryImmutable ==
    /\ known_columns = COLUMNS
    /\ cols_lock.writer = {}
    /\ ~cols_lock.poisoned
    /\ cols_lock.readers = {t \in Threads : pc[t] \in {"body", "ret"}}
    /\ \A t \in Threads :
          pc[t] = "ret" => (ret[t].tag = "Err" <=> call[t].col \notin COLUMNS)

\* Two calls read the registry together, one rejected on an undeclared
\* column and one accepted, after a put has succeeded.
C13_Witness ==
    \E t \in Threads, u \in Threads :
        /\ AtRet(t, "get") /\ call[t].col = ColumnY /\ ret[t].tag = "Err"
        /\ AtRet(u, "exists") /\ call[u].col = VALIDATOR_DB_COLUMN /\ ret[u] = Ok(TRUE)
        /\ cols_lock.readers = {t, u}

\* C14 (lock poisoning is fatal): once the db lock is poisoned it stays
\* poisoned, no call gets past the acquisition of the lock (none is in its
\* body or holds a result, Ok or Err), every call that leaves the
\* acquisition leaves it by a panic, and the map is never changed again.
C14_PoisoningIsFatal ==
    /\ [](db_lock.poisoned =>
            \A t \in Threads :
                /\ pc[t] \in {"idle", "lock_db", "failed", "panicked"}
                /\ ret[t] = NoRet)
    /\ [][db_lock.poisoned =>
            /\ db_lock'.poisoned
            /\ db' = db
            /\ \A t \in Threads :
                  (pc[t] = "lock_db" /\ pc'[t] # "lock_db") => pc'[t] = "panicked"]_vars

\* On a store with entries whose db lock is poisoned, one call has panicked
\* at the lock and another is about to acquire it.
C14_Witness ==
    \E t \in Threads, u \in Threads :
        /\ db_lock.poisoned
        /\ db # HashMap_new
        /\ pc[t] = "panicked"
        /\ pc[u] = "lock_db"
        /\ call[u].op = "get"
        /\ call[u].col \in COLUMNS

C16_RejectedWithoutDbLock ==
    \A t \in Threads :
        (pc[t] # "idle" /\ call[t].col \notin COLUMNS) =>
            /\ t \notin db_lock.readers \cup db_lock.writer
            /\ pc[t] = "lock_db" => db_lock.readers \cup db_lock.writer = {}

\* C16 amended: every call takes its guard of the db lock first, shared for
\* get and exists and exclusive for put and delete, and checks the column
\* with the guard held; the body of a call on an undeclared column returns
\* the error and leaves the map as it was, and while a put or delete on an
\* undeclared column holds its guard no other call holds one.
C16_ColumnCheckedUnderDbLock ==
    /\ [](\A t \in Threads :
            pc[t] \in {"lock_cols", "body", "ret"} =>
                /\ call[t].op \in Readers => t \in db_lock.readers
                /\ call[t].op \in Writers =>
                      /\ db_lock.writer = {t}
                      /\ \A u \in Threads \ {t} : pc[u] \in {"idle", "lock_db"})
    /\ [][\A t \in Threads :
            (BodyStep(t) /\ call[t].col \notin COLUMNS) =>
                /\ db' = db
                /\ ret'[t] = Err(DBError)]_vars

\* A put on an undeclared column holds the write guard, about to be
\* rejected, while a get on a known column with an entry waits for the lock.
C16_Witness ==
    \E t \in Threads, u \in Threads :
        /\ pc[t] = "body"
        /\ call[t].op = "put"
        /\ call[t].col = ColumnX
        /\ db_lock.writer = {t}
        /\ pc[u] = "lock_db"
        /\ call[u].op = "get"
        /\ call[u].col \in COLUMNS
        /\ HashMap_contains_key(db, get_key_for_col(call[u].col, call[u].key))

\* The (column, key) pairs of the calls in progress.
InFlight == {<<call[t].col, call[t].key>> : t \in {u \in Threads : pc[u] # "idle"}}

\* C17 (composite keys are deterministic and unambiguously framed): the
\* composite keys of two calls in progress are equal exactly when their
\* columns and their keys are; the pair of a column and a key whose plain
\* concatenation equals that of another pair has another composite key; and
\* the map holds one entry per (column, key) last written by a put, so no
\* two of them have met in one composite key.
C17_DerivationInjective ==
    /\ \A a \in InFlight, b \in InFlight :
          get_key_for_col(a[1], a[2]) = get_key_for_col(b[1], b[2]) <=> a = b
    /\ \A a \in ColumnNames \X Keys, b \in InFlight :
          (a[1] \o a[2] = b[1] \o b[2] /\ a # b) =>
              get_key_for_col(a[1], a[2]) # get_key_for_col(b[1], b[2])
    /\ Cardinality(DOMAIN db) =
          Cardinality({ck \in COLUMNS \X Keys : last[ck] # None})

\* Two calls are in progress on pairs whose plain concatenations coincide,
\* column <<1, 2>> with the empty key and column <<1>> with key <<2>>, and
\* both pairs have an entry, with different values.
C17_Witness ==
    \E t \in Threads, u \in Threads :
        /\ pc[t] = "body" /\ call[t].op = "get"
        /\ pc[u] = "body" /\ call[u].op = "get"
        /\ call[t].col # call[u].col
        /\ call[t].col \o call[t].key = call[u].col \o call[u].key
        /\ last[<<call[t].col, call[t].key>>] # None
        /\ last[<<call[u].col, call[u].key>>] # None
        /\ last[<<call[t].col, call[t].key>>] # last[<<call[u].col, call[u].key>>]

\* C18 (deadlock freedom): under fair scheduling every call that has started
\* returns; a call holds a guard of the registry lock only while it holds
\* one of the db lock, taken before it; a call about to return holds a
\* result, Ok or Err; and a thread outside any call holds no guard, after a
\* rejected call as after a successful one.
C18_DeadlockFreedom ==
    /\ \A t \in Threads : (pc[t] # "idle") ~> (pc[t] = "idle")
    /\ [](\A t \in Threads :
            /\ t \in cols_lock.readers \cup cols_lock.writer =>
                  t \in db_lock.readers \cup db_lock.writer
            /\ pc[t] = "lock_cols" => t \in db_lock.readers \cup db_lock.writer
            /\ pc[t] = "ret" => ret[t].tag \in {"Ok", "Err"}
            /\ pc[t] = "idle" =>
                  /\ t \notin db_lock.readers \cup db_lock.writer
                  /\ t \notin cols_lock.readers \cup cols_lock.writer)

\* A put waits for the db lock while an exists on an undeclared column, about
\* to return the error, still holds both guards.
C18_Witness ==
    \E t \in Threads, u \in Threads :
        /\ pc[t] = "lock_db"
        /\ call[t].op = "put"
        /\ AtRet(u, "exists")
        /\ ret[u] = Err(DBError)
        /\ u \in db_lock.readers
        /\ u \in cols_lock.readers

\* The puts the threads issued on key.
WroteTo(key) == {a \in wrote : a[3] = key}

\* C19 (last writer wins on a shared key): in the threading test, once every
\* thread has finished, every key written reads the value of the put that
\* held the write lock last among the puts on that key: it is not absent,
\* and it is the value of one of the puts issued on that key.
C19_LastWriterWins ==
    Joined =>
        \A a \in wrote :
            LET r == get(db, known_columns, BLOCKS_DB_COLUMN, a[3])
            IN  /\ r.tag = "Ok"
                /\ r.val # None
                /\ r.val = last[<<BLOCKS_DB_COLUMN, a[3]>>]
                /\ \E b \in WroteTo(a[3]) : r.val = Some(ThreadVal(b[1], b[2]))

\* Every thread has finished, two threads have written the same key, and
\* the key reads the value of the thread that is not the last in the order
\* of the thread identifiers.
C19_Witness ==
    /\ Joined
    /\ \E a \in wrote, b \in wrote :
          /\ a[3] = b[3]
          /\ a[1] < b[1]
          /\ get(db, known_columns, BLOCKS_DB_COLUMN, a[3]) =
                Ok(Some(ThreadVal(a[1], a[2])))

\* C20 (per-entry frame): the body of a get or exists leaves the map as it
\* was; the body of a put or delete on (c, k) of a known column changes no
\* entry of the map but that of (c, k), so for every other key k2 of c the
\* results of get(c, k2) and exists(c, k2) are the same after it as before.
C20_PerEntryFrame ==
    [][\A t \in Threads :
          BodyStep(t) =>
              /\ call[t].op \in Readers => db' = db
              /\ (call[t].op \in Writers /\ call[t].col \in COLUMNS) =>
                    /\ \A k2 \in Keys \ {call[t].key} :
                          /\ get(db', known_columns, call[t].col, k2) =
                                get(db, known_columns, call[t].col, k2)
                          /\ exists(db', known_columns, call[t].col, k2) =
                                exists(db, known_columns, call[t].col, k2)
                    /\ \A x \in (DOMAIN db \cup DOMAIN db') \
                                    {get_key_for_col(call[t].col, call[t].key)} :
                          HashMap_get(db', x) = HashMap_get(db, x)]_vars

\* A delete has removed the entry of its key while the other key of the same
\* column still has its entry.
C20_Witness ==
    \E t \in Threads :
        /\ AtRet(t, "delete")
        /\ call[t].col \in COLUMNS
        /\ old[t] # None
        /\ \E k2 \in Keys \ {call[t].key} :
              get(db, known_columns, call[t].col, k2).val \notin {None, Some(<< >>)}

====
